---------------------------- MODULE Spec2Model ----------------------------
(***************************************************************************)
(* Model of the bit-packed row/column table of package bitmaptable         *)
(* (bitmaptable.go) and of its mutex wrapper (bitmaptable_ts.go).          *)
(*                                                                         *)
(* One table is constructed, either by New (kind = "nts") or by NewTS      *)
(* (kind = "ts").  Callers are threads.  The bare table is used by one     *)
(* thread only (it has no synchronisation and is documented as such); the  *)
(* thread-safe table is shared by all threads.                             *)
(*                                                                         *)
(* Byte slices live in a heap: slice 0 is the backing array of b.bitmap,   *)
(* slice t is the array allocated by the last make() of a copying Data     *)
(* call of thread t.  A slice value held by a caller is a reference into   *)
(* that heap, so aliasing and copying are distinguishable.                 *)
(***************************************************************************)
EXTENDS Integers, Sequences, FiniteSets, TLC

\* ------------------------------------------------------------------ bounds
\* Largest constructor arguments tried.
MaxRows == 3
MaxCols == 3
\* Calls made by the single caller of a table.
MaxOps == 3
\* Calls made, in total, by the threads that share a NewTS table.
MaxConcOps == 2

\* Rows of a table built with a column count near 2^16, and the calls made on
\* such a table (each row of it spans thousands of bytes).
MaxWideRows == 1
MaxWideOps == 1

\* Largest arguments of bitmap.New tried, and the calls made on the bitmap.
MaxSize == 3
MaxWidth == 3
MaxFlatOps == 2

\* The calling threads (goroutines).
Threads == {1, 2}

\* Byte values a caller stores through a slice it got from Data.
WriteVals == {0, 123, 255}

\* ------------------------------------------------------- program constants
ErrIllegalIndex == "ErrIllegalIndex"

\* uint16: the width of the columns field.
ColumnsWidth == 16

tA == <<1, 2, 4, 8, 16, 32, 64, 128>>
tB == <<254, 253, 251, 247, 239, 223, 191, 127>>

\* ---------------------------------------------------------- Go arithmetic
\* Go's integer / and % truncate toward zero.
GoDiv(a, b) == IF a >= 0 THEN a \div b ELSE -((-a) \div b)
GoMod(a, b) == IF a >= 0 THEN a % b ELSE -((-a) % b)

Pow2(n) == IF n = 0 THEN 1 ELSE 2^n

Bit(x, i) == (x \div Pow2(i)) % 2

RECURSIVE AndFrom(_, _, _)
AndFrom(a, b, i) ==
    IF i > 7 THEN 0
    ELSE (IF Bit(a, i) = 1 /\ Bit(b, i) = 1 THEN Pow2(i) ELSE 0) + AndFrom(a, b, i + 1)

RECURSIVE OrFrom(_, _, _)
OrFrom(a, b, i) ==
    IF i > 7 THEN 0
    ELSE (IF Bit(a, i) = 1 \/ Bit(b, i) = 1 THEN Pow2(i) ELSE 0) + OrFrom(a, b, i + 1)

\* The byte operators & and |.
ByteAnd(a, b) == AndFrom(a, b, 0)
ByteOr(a, b) == OrFrom(a, b, 0)

\* --------------------------------------------------------- pure functions
\* setBit that ignores v and always sets the bit.
setBitAlways(by, bit, v) == ByteOr(by, tA[bit + 1])

\* setBit that clears with the mask of tA instead of tB.
setBitWrongMask(by, bit, v) ==
    IF v THEN ByteOr(by, tA[bit + 1]) ELSE ByteAnd(by, tA[bit + 1])

setBit(by, bit, v) ==
    IF v THEN ByteOr(by, tA[bit + 1]) ELSE ByteAnd(by, tB[bit + 1])

getBit(by, bit) == ByteAnd(by, tA[bit + 1]) # 0

\* calculateSize that drops the remainder instead of rounding up.
calculateSizeTruncated(r, c) == GoDiv(r * c, 8)

calculateSize(r, c) ==
    LET size == GoDiv(r * c, 8)
    IN  IF GoMod(r * c, 8) # 0 THEN size + 1 ELSE size

\* make([]byte, n): a zero-filled array indexed from 0.
MakeBytes(n) == [i \in 0 .. (n - 1) |-> 0]

\* ------------------------------------------------------------------ state
VARIABLES
    kind,      \* "nts": built by New; "ts": built by NewTS
    args,      \* the arguments the constructor was called with
    rows,      \* bitmaptable.rows
    columns,   \* bitmaptable.columns
    heap,      \* slice reference -> byte array; heap[0] backs b.bitmap
    mu,        \* ts.mu: 0 when free, else the thread that locked it
    pc,        \* per thread: where it is inside its current call
    call,      \* per thread: the arguments of its current call
    loc,       \* per thread: the locals of the call (by, bit, byte read, copy index, data)
    data,      \* per thread: the slice it holds from its last Data(false)
    data2,     \* per thread: the slice it holds from its last Data(true)
    ret,       \* per thread: its last completed call and what it returned
    nops,      \* number of calls made so far
    callers,   \* the threads that use the table
    flat,      \* the bitmap of package bitmap: its fields i, w and a
    bare       \* a New(rows, columns) table given the same calls, one after the
               \* other: its slices (as heap) and what each call returned (as ret)

vars == <<kind, args, rows, columns, heap, mu, pc, call, loc, data, data2, ret, nops,
          callers, flat, bare>>

Nil == -1

\* b.bitmap
bitmap == heap[0]

len(s) == Cardinality(DOMAIN s)

NoCall == [op |-> "none", row |-> 0, col |-> 0, value |-> FALSE]
NoLoc == [by |-> 0, bit |-> 0, tmp |-> 0, ci |-> 0, data |-> Nil, err |-> "nil"]
NoRet == [op |-> "none", row |-> 0, col |-> 0, value |-> FALSE,
          res |-> FALSE, n |-> 0, err |-> "nil"]

Result(op, row, col, value, res, n, err) ==
    [op |-> op, row |-> row, col |-> col, value |-> value,
     res |-> res, n |-> n, err |-> err]

\* No bitmap of package bitmap was built.
NoBitmap == [i |-> 0, w |-> 0, a |-> MakeBytes(0)]

\* ----------------------------------------------------------- construction
\* newNTS: the field values for constructor arguments (r, c).
newRows(r) == r
newColumns(c) == c % Pow2(ColumnsWidth)
newBitmap(r, c) == MakeBytes(calculateSize(r, c))

\* The state after New(r, c) or NewTS(r, c).
ConstructedBy(r, c) ==
    /\ args = [rows |-> r, columns |-> c]
    /\ rows = newRows(r)
    /\ columns = newColumns(c)
    /\ heap = [sl \in {0} \cup Threads |->
                  IF sl = 0 THEN newBitmap(r, c) ELSE MakeBytes(0)]
    /\ mu = 0
    /\ pc = [t \in Threads |-> "idle"]
    /\ call = [t \in Threads |-> NoCall]
    /\ loc = [t \in Threads |-> NoLoc]
    /\ data = [t \in Threads |-> Nil]
    /\ data2 = [t \in Threads |-> Nil]
    /\ ret = [t \in Threads |-> NoRet]
    /\ nops = 0
    /\ bare = [heap |-> [sl \in {0} \cup Threads |->
                            IF sl = 0 THEN newBitmap(r, c) ELSE MakeBytes(0)],
               ret |-> [t \in Threads |-> NoRet]]

\* The state after New(r, c) or NewTS(r, c), for every r and c tried.
Constructed ==
    /\ \E r \in 0 .. MaxRows, c \in 0 .. MaxCols : ConstructedBy(r, c)
    /\ flat = NoBitmap

\* A table of either kind, used by one thread.
Init ==
    /\ kind \in {"nts", "ts"}
    /\ callers = {1}
    /\ Constructed

\* The column counts around the width of the columns field.
WideColumnArgs == {Pow2(ColumnsWidth) - 1, Pow2(ColumnsWidth)}

\* A table of either kind, used by one thread, built with one column or
\* with a column count around 2^16.
InitWide ==
    /\ kind \in {"nts", "ts"}
    /\ callers = {1}
    /\ \E r \in 0 .. MaxWideRows, c \in {1} \cup WideColumnArgs : ConstructedBy(r, c)
    /\ flat = NoBitmap

\* A thread-safe table shared by all threads.
InitConc ==
    /\ kind = "ts"
    /\ callers = Threads
    /\ Constructed

\* ------------------------------------------------------------ bitmaptable
\* A bounds check that lets row == rows and column == columns through.
IllegalIndexStrict(row, column) == column > columns \/ row > rows

\* The bounds check of Get and Set.
IllegalIndex(row, column) == column >= columns \/ row >= rows

\* getPos that counts the bit from the most significant end.
getPosMsbFirst(row, column) ==
    LET pos == row * columns + column
    IN  <<GoDiv(pos, 8), 7 - GoMod(pos, 8)>>

getPos(row, column) ==
    LET pos == row * columns + column
    IN  <<GoDiv(pos, 8), GoMod(pos, 8)>>

\* An index expression b.bitmap[by], then tA[bit] or tB[bit], faults (a
\* run-time panic) when an index is out of range.
Faults(by, bit) == by \notin DOMAIN bitmap \/ bit \notin 0 .. 7

\* bitmaptable.Get on the current state: the value and the error returned.
Get(row, column) ==
    IF IllegalIndex(row, column)
    THEN [val |-> FALSE, err |-> ErrIllegalIndex]
    ELSE LET p == getPos(row, column)
         IN  IF Faults(p[1], p[2])
             THEN [val |-> FALSE, err |-> "panic"]
             ELSE [val |-> getBit(bitmap[p[1]], p[2]), err |-> "nil"]

\* The methods of the bare table run from call to return on a buffer b
\* (Data: on the slices h), as its single caller sees them.
bareGet(b, row, column) ==
    IF IllegalIndex(row, column)
    THEN [val |-> FALSE, err |-> ErrIllegalIndex]
    ELSE LET p == getPos(row, column)
         IN  IF p[1] \notin DOMAIN b \/ p[2] \notin 0 .. 7
             THEN [val |-> FALSE, err |-> "panic"]
             ELSE [val |-> getBit(b[p[1]], p[2]), err |-> "nil"]

bareSet(b, row, column, value) ==
    IF IllegalIndex(row, column)
    THEN [bitmap |-> b, err |-> ErrIllegalIndex]
    ELSE LET p == getPos(row, column)
         IN  IF p[1] \notin DOMAIN b \/ p[2] \notin 0 .. 7
             THEN [bitmap |-> b, err |-> "panic"]
             ELSE [bitmap |-> [b EXCEPT ![p[1]] = setBit(b[p[1]], p[2], value)],
                   err |-> "nil"]

bareData(h, t, c) == IF c THEN [h EXCEPT ![t] = h[0]] ELSE h

Budget ==
    IF args.columns > MaxCols THEN MaxWideOps
    ELSE IF Cardinality(callers) = 1 THEN MaxOps ELSE MaxConcOps

\* A thread may start a call: it uses the table and is in no call.
CanCall(t) ==
    /\ t \in callers
    /\ pc[t] = "idle"
    /\ nops < Budget

\* The arguments tried: every index of the table, and one beyond each end
\* (of a row of thousands of columns: its first and last index and one beyond).
RowArgs == -1 .. rows
ColArgs == IF columns <= MaxCols + 1 THEN -1 .. columns ELSE {-1, 0, columns - 1, columns}

\* The indexes at which a caller writes a slice: all (of a slice of thousands
\* of bytes: the first two and the last).
ByteArgs == {0, 1, len(bitmap) - 1} \cap DOMAIN bitmap

\* Rows()
RowsCall(t) ==
    /\ CanCall(t)
    /\ ret' = [ret EXCEPT ![t] = Result("Rows", 0, 0, FALSE, FALSE, rows, "nil")]
    /\ nops' = nops + 1
    /\ bare' = [bare EXCEPT !.ret[t] = Result("Rows", 0, 0, FALSE, FALSE, rows, "nil")]
    /\ UNCHANGED <<flat, kind, args, rows, columns, heap, mu, pc, call, loc, data, data2, callers>>

\* Columns()
ColumnsCall(t) ==
    /\ CanCall(t)
    /\ ret' = [ret EXCEPT ![t] = Result("Columns", 0, 0, FALSE, FALSE, columns, "nil")]
    /\ nops' = nops + 1
    /\ bare' = [bare EXCEPT !.ret[t] = Result("Columns", 0, 0, FALSE, FALSE, columns, "nil")]
    /\ UNCHANGED <<flat, kind, args, rows, columns, heap, mu, pc, call, loc, data, data2, callers>>

\* A Get that runs only while the mutex is free, as if ts.Get locked it.
GetCallLocked(t, row, column) ==
    /\ CanCall(t)
    /\ kind = "ts" => mu = 0
    /\ LET g == Get(row, column)
       IN  ret' = [ret EXCEPT ![t] = Result("Get", row, column, FALSE, g.val, 0, g.err)]
    /\ nops' = nops + 1
    /\ bare' = LET g == bareGet(bare.heap[0], row, column)
               IN  [bare EXCEPT !.ret[t] = Result("Get", row, column, FALSE, g.val, 0, g.err)]
    /\ UNCHANGED <<flat, kind, args, rows, columns, heap, mu, pc, call, loc, data, data2, callers>>

\* Get(row, column): ts.Get forwards to bitmaptable.Get without locking.
GetCall(t, row, column) ==
    /\ CanCall(t)
    /\ LET g == Get(row, column)
       IN  ret' = [ret EXCEPT ![t] = Result("Get", row, column, FALSE, g.val, 0, g.err)]
    /\ nops' = nops + 1
    /\ bare' = LET g == bareGet(bare.heap[0], row, column)
               IN  [bare EXCEPT !.ret[t] = Result("Get", row, column, FALSE, g.val, 0, g.err)]
    /\ UNCHANGED <<flat, kind, args, rows, columns, heap, mu, pc, call, loc, data, data2, callers>>

\* ------------------------------------------------------------------- Set
\* Set(row, column, value) is called.
SetCall(t, row, column, value) ==
    /\ CanCall(t)
    /\ call' = [call EXCEPT ![t] = [op |-> "Set", row |-> row, col |-> column, value |-> value]]
    /\ pc' = [pc EXCEPT ![t] = IF kind = "ts" THEN "ts_set_lock" ELSE "set_read"]
    /\ nops' = nops + 1
    /\ bare' = LET r == bareSet(bare.heap[0], row, column, value)
               IN  [bare EXCEPT !.heap[0] = r.bitmap,
                                !.ret[t] = Result("Set", row, column, value, FALSE, 0, r.err)]
    /\ UNCHANGED <<flat, kind, args, rows, columns, heap, mu, loc, data, data2, ret, callers>>

\* ts.Set that does not wait for the mutex.
TsSetLockNoWait(t) ==
    /\ pc[t] = "ts_set_lock"
    /\ mu' = t
    /\ pc' = [pc EXCEPT ![t] = "set_read"]
    /\ UNCHANGED <<bare, flat, kind, args, rows, columns, heap, call, loc, data, data2, ret, nops, callers>>

\* ts.Set: t.mu.Lock()
TsSetLock(t) ==
    /\ pc[t] = "ts_set_lock"
    /\ mu = 0
    /\ mu' = t
    /\ pc' = [pc EXCEPT ![t] = "set_read"]
    /\ UNCHANGED <<bare, flat, kind, args, rows, columns, heap, call, loc, data, data2, ret, nops, callers>>

\* The caller of Set receives err.
SetReturn(t, err) ==
    /\ ret' = [ret EXCEPT ![t] = Result("Set", call[t].row, call[t].col, call[t].value,
                                        FALSE, 0, err)]
    /\ call' = [call EXCEPT ![t] = NoCall]
    /\ loc' = [loc EXCEPT ![t] = NoLoc]

\* bitmaptable.Set returns err (to the wrapper under NewTS).
SetDone(t, err) ==
    IF kind = "ts"
    THEN /\ pc' = [pc EXCEPT ![t] = "ts_set_unlock"]
         /\ loc' = [loc EXCEPT ![t] = [NoLoc EXCEPT !.err = err]]
         /\ UNCHANGED <<call, ret>>
    ELSE /\ pc' = [pc EXCEPT ![t] = "idle"]
         /\ SetReturn(t, err)

\* bitmaptable.Set up to the read of b.bitmap[by]: the bounds check, getPos,
\* and the operand of setBit.  A fault leaves the method at once: the caller
\* sees a panic, and under NewTS the Unlock after t.b.Set is never reached.
SetRead(t) ==
    /\ pc[t] = "set_read"
    /\ LET row == call[t].row
           column == call[t].col
           p == getPos(row, column)
       IN  IF IllegalIndex(row, column)
           THEN SetDone(t, ErrIllegalIndex)
           ELSE IF Faults(p[1], p[2])
           THEN /\ pc' = [pc EXCEPT ![t] = "idle"]
                /\ SetReturn(t, "panic")
           ELSE /\ pc' = [pc EXCEPT ![t] = "set_write"]
                /\ loc' = [loc EXCEPT ![t] = [NoLoc EXCEPT !.by = p[1], !.bit = p[2],
                                                          !.tmp = bitmap[p[1]]]]
                /\ UNCHANGED <<call, ret>>
    /\ UNCHANGED <<bare, flat, kind, args, rows, columns, heap, mu, data, data2, nops, callers>>

\* bitmaptable.Set: the store b.bitmap[by] = setBit(<byte read>, bit, value);
\* return nil.
SetWrite(t) ==
    /\ pc[t] = "set_write"
    /\ heap' = [heap EXCEPT ![0][loc[t].by] = setBit(loc[t].tmp, loc[t].bit, call[t].value)]
    /\ SetDone(t, "nil")
    /\ UNCHANGED <<bare, flat, kind, args, rows, columns, mu, data, data2, nops, callers>>

\* ts.Set: t.mu.Unlock(); return err
TsSetUnlock(t) ==
    /\ pc[t] = "ts_set_unlock"
    /\ mu' = 0
    /\ pc' = [pc EXCEPT ![t] = "idle"]
    /\ SetReturn(t, loc[t].err)
    /\ UNCHANGED <<bare, flat, kind, args, rows, columns, heap, data, data2, nops, callers>>

\* ------------------------------------------------------------------ Data
\* Data(c) is called.
DataCall(t, c) ==
    /\ CanCall(t)
    /\ call' = [call EXCEPT ![t] = [op |-> "Data", row |-> 0, col |-> 0, value |-> c]]
    /\ pc' = [pc EXCEPT ![t] = IF kind = "ts" THEN "ts_data_lock" ELSE "data_body"]
    /\ nops' = nops + 1
    /\ bare' = [bare EXCEPT !.heap = bareData(bare.heap, t, c),
                             !.ret[t] = Result("Data", 0, 0, c, FALSE, 0, "nil")]
    /\ UNCHANGED <<flat, kind, args, rows, columns, heap, mu, loc, data, data2, ret, callers>>

\* ts.Data that does not wait for the mutex.
TsDataLockNoWait(t) ==
    /\ pc[t] = "ts_data_lock"
    /\ mu' = t
    /\ pc' = [pc EXCEPT ![t] = "data_body"]
    /\ UNCHANGED <<bare, flat, kind, args, rows, columns, heap, call, loc, data, data2, ret, nops, callers>>

\* ts.Data: t.mu.Lock()
TsDataLock(t) ==
    /\ pc[t] = "ts_data_lock"
    /\ mu = 0
    /\ mu' = t
    /\ pc' = [pc EXCEPT ![t] = "data_body"]
    /\ UNCHANGED <<bare, flat, kind, args, rows, columns, heap, call, loc, data, data2, ret, nops, callers>>

\* The caller receives the slice: the test code keeps the slice of Data(false)
\* in data and the slice of Data(true) in data2.
Receive(t, slice) ==
    /\ IF call[t].value
       THEN data2' = [data2 EXCEPT ![t] = slice] /\ UNCHANGED data
       ELSE data' = [data EXCEPT ![t] = slice] /\ UNCHANGED data2
    /\ ret' = [ret EXCEPT ![t] = Result("Data", 0, 0, call[t].value, FALSE, 0, "nil")]
    /\ call' = [call EXCEPT ![t] = NoCall]
    /\ loc' = [loc EXCEPT ![t] = NoLoc]

\* bitmaptable.Data has its slice: it returns it (to the wrapper under NewTS).
DataDone(t, slice) ==
    IF kind = "ts"
    THEN /\ pc' = [pc EXCEPT ![t] = "ts_data_unlock"]
         /\ loc' = [loc EXCEPT ![t] = [NoLoc EXCEPT !.data = slice]]
         /\ UNCHANGED <<call, data, data2, ret, callers>>
    ELSE /\ pc' = [pc EXCEPT ![t] = "idle"]
         /\ Receive(t, slice)

\* Data that copies whatever c is.
ReturnsBitmapNever(c) == FALSE

\* Data that returns b.bitmap whatever c is.
ReturnsBitmapAlways(c) == TRUE

\* Whether bitmaptable.Data(c) returns b.bitmap itself.
ReturnsBitmap(c) == ~c

\* A Data whose mutex is released before the copy is made.
DataBodyEarlyUnlock(t) ==
    /\ pc[t] = "data_body"
    /\ IF ReturnsBitmap(call[t].value)
       THEN /\ DataDone(t, 0)
            /\ UNCHANGED <<heap, mu>>
       ELSE /\ heap' = [heap EXCEPT ![t] = MakeBytes(len(bitmap))]
            /\ loc' = [loc EXCEPT ![t] = [NoLoc EXCEPT !.data = t]]
            /\ pc' = [pc EXCEPT ![t] = "data_copy"]
            /\ mu' = 0
            /\ UNCHANGED <<call, data, data2, ret, callers>>
    /\ UNCHANGED <<bare, flat, kind, args, rows, columns, nops, callers>>

\* bitmaptable.Data: if !c, return b.bitmap; else data := make(len(b.bitmap)).
DataBody(t) ==
    /\ pc[t] = "data_body"
    /\ IF ReturnsBitmap(call[t].value)
       THEN /\ DataDone(t, 0)
            /\ UNCHANGED heap
       ELSE /\ heap' = [heap EXCEPT ![t] = MakeBytes(len(bitmap))]
            /\ loc' = [loc EXCEPT ![t] = [NoLoc EXCEPT !.data = t]]
            /\ pc' = [pc EXCEPT ![t] = "data_copy"]
            /\ UNCHANGED <<call, data, data2, ret, callers>>
    /\ UNCHANGED <<bare, flat, kind, args, rows, columns, mu, nops, callers>>

\* A copy in the wrong direction: copy(b.bitmap, data).
DataCopyReversed(t) ==
    /\ pc[t] = "data_copy"
    /\ loc[t].ci < len(bitmap)
    /\ heap' = [heap EXCEPT ![0][loc[t].ci] = heap[t][loc[t].ci]]
    /\ loc' = [loc EXCEPT ![t].ci = loc[t].ci + 1]
    /\ UNCHANGED <<bare, flat, kind, args, rows, columns, mu, pc, call, data, data2, ret, nops, callers>>

\* copy(data, b.bitmap), one byte at a time.
DataCopy(t) ==
    /\ pc[t] = "data_copy"
    /\ loc[t].ci < len(bitmap)
    /\ heap' = [heap EXCEPT ![t][loc[t].ci] = bitmap[loc[t].ci]]
    /\ loc' = [loc EXCEPT ![t].ci = loc[t].ci + 1]
    /\ UNCHANGED <<bare, flat, kind, args, rows, columns, mu, pc, call, data, data2, ret, nops, callers>>

\* copy is complete: return data.
DataCopied(t) ==
    /\ pc[t] = "data_copy"
    /\ loc[t].ci = len(bitmap)
    /\ DataDone(t, t)
    /\ UNCHANGED <<bare, flat, kind, args, rows, columns, heap, mu, nops, callers>>

\* ts.Data: t.mu.Unlock(); return data
TsDataUnlock(t) ==
    /\ pc[t] = "ts_data_unlock"
    /\ mu' = 0
    /\ pc' = [pc EXCEPT ![t] = "idle"]
    /\ Receive(t, loc[t].data)
    /\ UNCHANGED <<bare, flat, kind, args, rows, columns, heap, nops, callers>>

\* ------------------------------------------------- the caller's own writes
\* data[i] = x, on the slice kept from Data(false)
WriteData(t, i, x) ==
    /\ CanCall(t)
    /\ data[t] # Nil
    /\ i \in DOMAIN heap[data[t]]
    /\ heap' = [heap EXCEPT ![data[t]][i] = x]
    /\ ret' = [ret EXCEPT ![t] = Result("WriteData", i, 0, FALSE, FALSE, x, "nil")]
    /\ nops' = nops + 1
    /\ bare' = [bare EXCEPT !.heap[data[t]][i] = x,
                             !.ret[t] = Result("WriteData", i, 0, FALSE, FALSE, x, "nil")]
    /\ UNCHANGED <<flat, kind, args, rows, columns, mu, pc, call, loc, data, data2, callers>>

\* data2[i] = x, on the slice kept from Data(true)
WriteData2(t, i, x) ==
    /\ CanCall(t)
    /\ data2[t] # Nil
    /\ i \in DOMAIN heap[data2[t]]
    /\ heap' = [heap EXCEPT ![data2[t]][i] = x]
    /\ ret' = [ret EXCEPT ![t] = Result("WriteData2", i, 0, FALSE, FALSE, x, "nil")]
    /\ nops' = nops + 1
    /\ bare' = [bare EXCEPT !.heap[data2[t]][i] = x,
                             !.ret[t] = Result("WriteData2", i, 0, FALSE, FALSE, x, "nil")]
    /\ UNCHANGED <<flat, kind, args, rows, columns, mu, pc, call, loc, data, data2, callers>>

\* --------------------------------------------------------- package bitmap
\* bitmap.New(size, width): it allocates size * width bits.
bitmapNew(size, width) ==
    LET as == size * width
        rest == GoMod(as, 8)
    IN  [i |-> size, w |-> width,
         a |-> MakeBytes(IF rest # 0 THEN GoDiv(as, 8) + 1 ELSE GoDiv(as, 8))]

\* A bitmap of package bitmap, used by one caller; no table is in use.
InitFlat ==
    /\ kind = "bitmap"
    /\ callers = {}
    /\ ConstructedBy(0, 0)
    /\ \E size \in 0 .. MaxSize, width \in 0 .. MaxWidth : flat = bitmapNew(size, width)

\* The check at the head of bitmap.Get and bitmap.Set.
bitmapIllegal(id, pos) == pos >= flat.w \/ id > flat.i

\* The bit addressed by (id, pos): l := id*s.w + pos; by := l / 8; l % 8.
bitmapPos(id, pos) ==
    LET l == id * flat.w + pos
    IN  <<GoDiv(l, 8), GoMod(l, 8)>>

\* s.a[by], then tA[p] or tB[p], faults when an index is out of range.
bitmapFaults(by, p) == by \notin DOMAIN flat.a \/ p \notin 0 .. 7

\* (*bitmap).Get on the current state: the value and the error returned.
bitmapGet(id, pos) ==
    IF bitmapIllegal(id, pos)
    THEN [val |-> FALSE, err |-> ErrIllegalIndex]
    ELSE LET p == bitmapPos(id, pos)
         IN  IF bitmapFaults(p[1], p[2])
             THEN [val |-> FALSE, err |-> "panic"]
             ELSE [val |-> getBit(flat.a[p[1]], p[2]), err |-> "nil"]

CanCallBitmap == kind = "bitmap" /\ nops < MaxFlatOps

\* The arguments tried: every index, one below, and up to two above.
IdArgs == -1 .. (flat.i + 1)
PosArgs == -1 .. flat.w

\* b.Get(id, pos)
BitmapGetCall(id, pos) ==
    /\ CanCallBitmap
    /\ LET g == bitmapGet(id, pos)
       IN  ret' = [ret EXCEPT ![1] = Result("bitmap.Get", id, pos, FALSE, g.val, 0, g.err)]
    /\ nops' = nops + 1
    /\ UNCHANGED <<bare, flat, kind, args, rows, columns, heap, mu, pc, call, loc, data, data2, callers>>

\* b.Set(id, pos, value)
BitmapSetCall(id, pos, value) ==
    /\ CanCallBitmap
    /\ LET p == bitmapPos(id, pos)
       IN  IF bitmapIllegal(id, pos)
           THEN /\ ret' = [ret EXCEPT ![1] = Result("bitmap.Set", id, pos, value, FALSE, 0,
                                                    ErrIllegalIndex)]
                /\ UNCHANGED flat
           ELSE IF bitmapFaults(p[1], p[2])
           THEN /\ ret' = [ret EXCEPT ![1] = Result("bitmap.Set", id, pos, value, FALSE, 0,
                                                    "panic")]
                /\ UNCHANGED flat
           ELSE /\ flat' = [flat EXCEPT !.a[p[1]] = setBit(flat.a[p[1]], p[2], value)]
                /\ ret' = [ret EXCEPT ![1] = Result("bitmap.Set", id, pos, value, FALSE, 0,
                                                    "nil")]
    /\ nops' = nops + 1
    /\ UNCHANGED <<bare, kind, args, rows, columns, heap, mu, pc, call, loc, data, data2, callers>>


\* ---------------------------------------------------------- specification
Next ==
    \E t \in Threads :
        \/ RowsCall(t)
        \/ ColumnsCall(t)
        \/ \E row \in RowArgs, column \in ColArgs : GetCall(t, row, column)
        \/ \E row \in RowArgs, column \in ColArgs, value \in BOOLEAN :
              SetCall(t, row, column, value)
        \/ TsSetLock(t)
        \/ SetRead(t)
        \/ SetWrite(t)
        \/ TsSetUnlock(t)
        \/ \E c \in BOOLEAN : DataCall(t, c)
        \/ TsDataLock(t)
        \/ DataBody(t)
        \/ DataCopy(t)
        \/ DataCopied(t)
        \/ TsDataUnlock(t)
        \/ \E i \in ByteArgs, x \in WriteVals : WriteData(t, i, x)
        \/ \E i \in ByteArgs, x \in WriteVals : WriteData2(t, i, x)

Spec == Init /\ [][Next]_vars

SpecConc == InitConc /\ [][Next]_vars

SpecWide == InitWide /\ [][Next]_vars

NextFlat ==
    \/ \E id \in IdArgs, pos \in PosArgs : BitmapGetCall(id, pos)
    \/ \E id \in IdArgs, pos \in PosArgs, value \in BOOLEAN : BitmapSetCall(id, pos, value)

SpecFlat == InitFlat /\ [][NextFlat]_vars

\* ================================================================= claims
\* A valid cell: 0 <= row < rowCount and 0 <= column < columnCount.
ValidCell(row, column) == 0 <= row /\ row < rows /\ 0 <= column /\ column < columns

Cells == {rc \in (0 .. (rows - 1)) \X (0 .. (columns - 1)) : TRUE}

\* The linear bit position of a cell.
Pos(row, column) == row * columns + column

Idle(t) == pc[t] = "idle"

\* C1: round trip.  Whenever the caller's last call is Set(row, column, v)
\* on a valid cell, that Set returned no error and Get(row, column) now
\* returns (v, no error), for v true and v false.
C1_RoundTrip ==
    \A t \in Threads :
        (Idle(t) /\ ret[t].op = "Set" /\ ValidCell(ret[t].row, ret[t].col))
            => /\ ret[t].err = "nil"
               /\ Get(ret[t].row, ret[t].col) = [val |-> ret[t].value, err |-> "nil"]

\* A Set(row, column, false) has returned on a cell of the second byte while
\* other bits are set.
C1_Witness ==
    \E t \in Threads :
        /\ Idle(t) /\ ret[t].op = "Set" /\ ValidCell(ret[t].row, ret[t].col)
        /\ ~ret[t].value
        /\ Pos(ret[t].row, ret[t].col) >= 8
        /\ nops = 2
        /\ \E i \in DOMAIN bitmap : bitmap[i] # 0

\* C2: frame of Set.  No step of a Set call on a valid cell (r1, c1) changes
\* what Get returns for any other valid cell (r2, c2).
C2_Frame ==
    [][\A t \in Threads :
          (call[t].op = "Set" /\ ValidCell(call[t].row, call[t].col))
              => \A rc \in Cells :
                     rc # <<call[t].row, call[t].col>>
                         => Get(rc[1], rc[2])' = Get(rc[1], rc[2])]_vars

\* A Set(.., false) has returned while another cell of the same byte reads true.
C2_Witness ==
    \E t \in Threads :
        /\ Idle(t) /\ ret[t].op = "Set" /\ ret[t].err = "nil"
        /\ ValidCell(ret[t].row, ret[t].col)
        /\ ~ret[t].value
        /\ \E rc \in Cells :
              /\ rc # <<ret[t].row, ret[t].col>>
              /\ Pos(rc[1], rc[2]) \div 8 = Pos(ret[t].row, ret[t].col) \div 8
              /\ Get(rc[1], rc[2]).val

\* C3: no lost updates.  When every thread sharing a NewTS table has made
\* exactly one call, a Set on a valid cell distinct from the others', and all
\* have returned, each cell reads the value its Set wrote.
C3_NoLostUpdate ==
    ( /\ nops = Cardinality(callers)
      /\ \A t \in callers :
            /\ Idle(t) /\ ret[t].op = "Set" /\ ValidCell(ret[t].row, ret[t].col)
      /\ \A t, u \in callers :
            t # u => <<ret[t].row, ret[t].col>> # <<ret[u].row, ret[u].col>> )
    => \A t \in callers :
           /\ ret[t].err = "nil"
           /\ Get(ret[t].row, ret[t].col) = [val |-> ret[t].value, err |-> "nil"]

\* Two threads have each set a different cell of the same byte to true.
C3_Witness ==
    /\ callers = Threads
    /\ nops = Cardinality(callers)
    /\ \A t \in callers :
          /\ Idle(t) /\ ret[t].op = "Set" /\ ret[t].err = "nil" /\ ret[t].value
          /\ ValidCell(ret[t].row, ret[t].col)
    /\ \A t, u \in callers :
          t # u => /\ <<ret[t].row, ret[t].col>> # <<ret[u].row, ret[u].col>>
                   /\ Pos(ret[t].row, ret[t].col) \div 8 = Pos(ret[u].row, ret[u].col) \div 8

\* The arguments the bounds claims are checked for.
WideRows == -2 .. (rows + 2)
WideCols == -2 .. (columns + 2)

\* C4: upper bound.  With row >= rowCount (row == rowCount included) or
\* column >= columnCount, Get returns (false, ErrIllegalIndex) and Set returns
\* ErrIllegalIndex; on every valid cell both return no error.
C4_UpperBound ==
    /\ \A row \in WideRows, column \in WideCols :
          /\ (row >= rows \/ column >= columns)
                => Get(row, column) = [val |-> FALSE, err |-> ErrIllegalIndex]
          /\ ValidCell(row, column) => Get(row, column).err = "nil"
    /\ \A t \in Threads :
          (Idle(t) /\ ret[t].op \in {"Get", "Set"})
              => /\ (ret[t].row >= rows \/ ret[t].col >= columns)
                       => (ret[t].err = ErrIllegalIndex /\ ~ret[t].res)
                 /\ ValidCell(ret[t].row, ret[t].col) => ret[t].err = "nil"

\* Set(rowCount, column, true) with a valid column has returned ErrIllegalIndex
\* on a table that has cells.
C4_Witness ==
    \E t \in Threads :
        /\ Idle(t) /\ ret[t].op = "Set" /\ ret[t].value
        /\ ret[t].row = rows /\ rows > 0
        /\ 0 <= ret[t].col /\ ret[t].col < columns
        /\ ret[t].err = ErrIllegalIndex

\* C5: lower bound.  On a table that has cells, a Get or Set called with
\* row < 0 or column < 0 returns ErrIllegalIndex (so it neither faults nor
\* reaches the bit of another cell).
C5_LowerBound ==
    \A t \in Threads :
        (rows > 0 /\ columns > 0 /\ Idle(t) /\ ret[t].op \in {"Get", "Set"}
              /\ (ret[t].row < 0 \/ ret[t].col < 0))
            => ret[t].err = ErrIllegalIndex

\* C6: Data(false) aliases the live buffer.  In every state after a thread
\* took view := Data(false), the view and the buffer hold the same bytes,
\* whatever was written through either: a byte just written through the view
\* is what Get reads, and a bit just written by Set is in the view.
C6_Alias ==
    \A t \in Threads :
        data[t] # Nil
            => /\ DOMAIN heap[data[t]] = DOMAIN bitmap
               /\ \A i \in DOMAIN bitmap : heap[data[t]][i] = bitmap[i]
               /\ (Idle(t) /\ ret[t].op = "WriteData")
                     => \A rc \in Cells :
                            Pos(rc[1], rc[2]) \div 8 = ret[t].row
                                => Get(rc[1], rc[2]).val
                                     = (Bit(ret[t].n, Pos(rc[1], rc[2]) % 8) = 1)
               /\ (Idle(t) /\ ret[t].op = "Set" /\ ret[t].err = "nil"
                          /\ ValidCell(ret[t].row, ret[t].col))
                     => (Bit(heap[data[t]][Pos(ret[t].row, ret[t].col) \div 8],
                             Pos(ret[t].row, ret[t].col) % 8) = 1) = ret[t].value

\* On a thread-safe table, byte 1 was written 123 through the view after a
\* Set, and a cell of that byte reads true.
C6_Witness ==
    \E t \in Threads :
        /\ kind = "ts" /\ data[t] # Nil /\ nops = 3
        /\ Idle(t) /\ ret[t].op = "WriteData" /\ ret[t].row = 1 /\ ret[t].n = 123
        /\ bitmap[0] # 0
        /\ \E rc \in Cells : Pos(rc[1], rc[2]) \div 8 = 1 /\ Get(rc[1], rc[2]).val

\* The step is a write of thread t through the slice it keeps in data2.
IsWriteData2(t) == nops' = nops + 1 /\ ret'[t].op = "WriteData2"

\* The step is a write of thread t through the slice it keeps in data.
IsWriteData(t) == nops' = nops + 1 /\ ret'[t].op = "WriteData"

\* C7: Data(true) is an isolated copy.  When Data(true) has just returned,
\* the slice holds the bytes of the buffer; no write to the copy changes the
\* buffer (nor a view, which is the buffer); no step of a Set call and no
\* write through a view changes the copy.
C7_Copy ==
    /\ [](\A t \in Threads :
             (Idle(t) /\ ret[t].op = "Data" /\ ret[t].value)
                 => /\ data2[t] # Nil
                    /\ heap[data2[t]] = bitmap)
    /\ [][\A t \in Threads :
             /\ IsWriteData2(t) => bitmap' = bitmap
             /\ \A u \in Threads :
                   (data2[u] # Nil /\ (call[t].op = "Set" \/ IsWriteData(t)))
                       => heap'[data2[u]] = heap[data2[u]]]_vars

\* A thread holding a view and a copy has written the copy, which now differs
\* from the buffer.
C7_Witness ==
    \E t \in Threads :
        /\ Idle(t) /\ ret[t].op = "WriteData2"
        /\ data[t] # Nil /\ data2[t] # Nil
        /\ heap[data2[t]] # bitmap

\* C8: buffer size.  The buffer holds ceil(rowCount * columnCount / 8) bytes,
\* indexed from 0, for the constructor's arguments, in every state; 10 x 5
\* gives 7 and 4 x 4 gives 2.
C8_BufferSize ==
    /\ 8 * len(bitmap) >= args.rows * args.columns
    /\ 8 * len(bitmap) < args.rows * args.columns + 8
    /\ DOMAIN bitmap = 0 .. (len(bitmap) - 1)
    /\ len(newBitmap(10, 5)) = 7
    /\ len(newBitmap(4, 4)) = 2

\* A 3 x 3 table (9 bits, 2 bytes) after three calls that changed both bytes.
C8_Witness ==
    /\ args = [rows |-> 3, columns |-> 3]
    /\ nops = 3
    /\ \A t \in callers : Idle(t)
    /\ len(bitmap) = 2 /\ bitmap[0] # 0 /\ bitmap[1] # 0

\* Thread t is between the Lock and the Unlock of ts.Set or ts.Data.
InCritical(t) ==
    pc[t] \in {"set_read", "set_write", "ts_set_unlock",
               "data_body", "data_copy", "ts_data_unlock"}

\* C9: mutual exclusion on the thread-safe table.  At most one thread is
\* between its Lock and its Unlock, and it is the one the mutex records.
C9_MutualExclusion ==
    kind = "ts"
        => /\ Cardinality({t \in Threads : InCritical(t)}) <= 1
           /\ \A t \in Threads : InCritical(t) => mu = t

\* One thread is between the read and the write of Set while another waits
\* to lock for Data.
C9_Witness ==
    \E t, u \in Threads :
        /\ kind = "ts" /\ t # u
        /\ pc[t] = "set_write" /\ pc[u] = "ts_data_lock"

\* C10: address mapping.  With p = row * columnCount + column, Get reads bit
\* p mod 8 (from the least significant bit) of byte p div 8; a first call
\* Set(row, column, true) leaves byte p div 8 equal to 2^(p mod 8) and every
\* other byte 0; with one column, row 39 is byte 4, bit 7.
C10_AddressMapping ==
    /\ \A rc \in Cells :
          Get(rc[1], rc[2]).val
              = (Bit(bitmap[Pos(rc[1], rc[2]) \div 8], Pos(rc[1], rc[2]) % 8) = 1)
    /\ \A t \in Threads :
          (nops = 1 /\ Idle(t) /\ ret[t].op = "Set" /\ ret[t].value
                /\ ValidCell(ret[t].row, ret[t].col))
              => bitmap = [i \in DOMAIN bitmap |->
                              IF i = Pos(ret[t].row, ret[t].col) \div 8
                              THEN Pow2(Pos(ret[t].row, ret[t].col) % 8)
                              ELSE 0]
    /\ columns = 1 => getPos(39, 0) = <<4, 7>>

\* The first call set the cell at bit position 8: byte 1, bit 0.
C10_Witness ==
    \E t \in Threads :
        /\ nops = 1 /\ Idle(t) /\ ret[t].op = "Set" /\ ret[t].value
        /\ ret[t].err = "nil"
        /\ Pos(ret[t].row, ret[t].col) = 8
        /\ bitmap[1] = 1

\* C11: the bitmap of package bitmap.  On a bitmap that has cells, Get and
\* Set return ErrIllegalIndex for every id outside 0 .. size-1 (id == size
\* included) and every position outside 0 .. width-1, so they never fault on
\* an index past the end of the array; for every legal (id, position) they
\* return no error.
C11_FlatBounds ==
    (kind = "bitmap" /\ flat.i > 0 /\ flat.w > 0
         /\ ret[1].op \in {"bitmap.Get", "bitmap.Set"})
        => IF 0 <= ret[1].row /\ ret[1].row < flat.i /\ 0 <= ret[1].col /\ ret[1].col < flat.w
           THEN ret[1].err = "nil"
           ELSE ret[1].err = ErrIllegalIndex

\* C12: column count preserved.  For a table that has rows, constructed with
\* a columnCount from 1 up to and including 2^16: Columns() returns that
\* columnCount; Get and Set accept every column in 0 .. columnCount-1 of a
\* valid row, and the byte they address lies inside the buffer the constructor
\* allocated.
C12_ColumnsPreserved ==
    (args.rows > 0 /\ 1 <= args.columns /\ args.columns <= Pow2(16))
        => \A t \in Threads :
                 /\ (Idle(t) /\ ret[t].op = "Columns") => ret[t].n = args.columns
                 /\ (Idle(t) /\ ret[t].op \in {"Get", "Set"}
                        /\ 0 <= ret[t].row /\ ret[t].row < args.rows
                        /\ 0 <= ret[t].col /\ ret[t].col < args.columns)
                       => /\ ret[t].err = "nil"
                          /\ getPos(ret[t].row, ret[t].col)[1] \in DOMAIN bitmap

\* C13: the thread-safe table refines the bare table.  For a single caller
\* of a table that has cells, every call on a table built by NewTS (and by
\* New) returns, with what the same call returns on a New table run one call
\* after the other, and leaves the same bytes in the buffer and in the
\* caller's slices: a call in progress is never kept waiting, and whenever
\* the caller is back from a call the result and the slices are those of the
\* bare table.
C13_Refinement ==
    \A t \in callers :
        (Cardinality(callers) = 1 /\ rows > 0 /\ columns > 0)
            => /\ Idle(t) => (ret[t] = bare.ret[t] /\ heap = bare.heap)
               /\ pc[t] \in {"ts_set_lock", "ts_data_lock"} => mu = 0

\* C14: Get on the thread-safe table never blocks.  In every state, whoever
\* holds the mutex, a thread that is in no call can run Get(row, column) to
\* completion, for every row and column.
C14_GetNeverBlocks ==
    kind = "ts"
        => \A t \in callers :
               (Idle(t) /\ nops < Budget)
                   => \A row \in RowArgs, column \in ColArgs :
                          ENABLED GetCall(t, row, column)

\* A Get on a valid cell has returned while the other thread, between the
\* read and the write of its Set, holds the mutex.
C14_Witness ==
    \E t, u \in Threads :
        /\ kind = "ts" /\ t # u
        /\ Idle(t) /\ ret[t].op = "Get" /\ ret[t].err = "nil"
        /\ pc[u] = "set_write" /\ mu = u

\* The step is the store of thread t's Set(row, column, true), which then
\* returns no error.
IsSetTrue(t, row, column) ==
    /\ pc[t] = "set_write" /\ pc'[t] # "set_write"
    /\ call[t] = [op |-> "Set", row |-> row, col |-> column, value |-> TRUE]

\* C15: zero default.  Right after construction every valid cell reads false,
\* and a valid cell goes from false to true only by the store of a successful
\* Set(row, column, true) on that very cell or by a write through a slice got
\* from Data(false); so a cell that was the target of neither reads false.
C15_ZeroDefault ==
    /\ [](nops = 0 => \A rc \in Cells : Get(rc[1], rc[2]) = [val |-> FALSE, err |-> "nil"])
    /\ [][\A rc \in Cells :
             (~Get(rc[1], rc[2]).val /\ Get(rc[1], rc[2]).val')
                 => \E t \in Threads : IsSetTrue(t, rc[1], rc[2]) \/ IsWriteData(t)]_vars

\* C16: all mutation of a shared thread-safe table goes through the lock.
\* Every step that changes a byte of the buffer of a NewTS table is the store
\* of a thread that is inside Set and holds the mutex; this covers the writes
\* a thread makes through a slice it got from Data(false).
C16_WritesUnderLock ==
    [][(kind = "ts" /\ bitmap' # bitmap)
          => \E t \in Threads : mu = t /\ pc[t] = "set_write" /\ pc'[t] # "set_write"]_vars

\* Thread t is inside a Set or Data call (waiting for the mutex included).
InCall(t) == pc[t] # "idle"

\* C17: the lock is held only for the duration of a call.  On a thread-safe
\* table that has cells, whenever no Set or Data call is in progress the mutex
\* is free, whatever the outcome of the calls made so far (success,
\* ErrIllegalIndex or a fault), and so a thread waiting to lock is waiting for
\* a thread that is inside a call.
C17_LockReleased ==
    (kind = "ts" /\ rows > 0 /\ columns > 0)
        => /\ (\A t \in Threads : ~InCall(t)) => mu = 0
           /\ \A t \in Threads :
                  (pc[t] \in {"ts_set_lock", "ts_data_lock"} /\ mu # 0) => InCritical(mu)

\* The step is the store of thread t's Set, which then returns no error.
IsSetStore(t) ==
    /\ pc[t] = "set_write" /\ call[t].op = "Set"
    /\ IF kind = "ts"
       THEN pc'[t] = "ts_set_unlock" /\ loc'[t].err = "nil"
       ELSE pc'[t] = "idle" /\ ret'[t].op = "Set" /\ ret'[t].err = "nil"

\* C18: only a successful Set changes the table.  For a single caller: no
\* step changes the stored row and column counts; a Get (returning a value,
\* ErrIllegalIndex or faulting), Rows, Columns, every step of a Data(true) or
\* Data(false) call, and the return of a Set with ErrIllegalIndex leave every
\* byte of the buffer unchanged; and the only steps of the table's methods
\* that change a byte are stores of a Set that returns no error (the other
\* changes being the caller's own writes through a Data(false) slice).
C18_OnlySetChanges ==
    [][/\ rows' = rows /\ columns' = columns
       /\ \A t \in Threads :
             /\ (nops' = nops + 1 /\ ret'[t].op \in {"Get", "Rows", "Columns"})
                   => bitmap' = bitmap
             /\ (call[t].op = "Data" \/ call'[t].op = "Data") => bitmap' = bitmap
             /\ (ret'[t] # ret[t] /\ ret'[t].op = "Set" /\ ret'[t].err = ErrIllegalIndex)
                   => bitmap' = bitmap
       /\ bitmap' # bitmap => \E t \in Threads : IsSetStore(t) \/ IsWriteData(t)]_vars

\* After a Set(.., true) and a Data(true), a Set has returned ErrIllegalIndex
\* and the buffer still holds the bit.
C18_Witness ==
    \E t \in Threads :
        /\ nops = 3 /\ Idle(t) /\ data2[t] # Nil
        /\ ret[t].op = "Set" /\ ret[t].err = ErrIllegalIndex /\ ret[t].value
        /\ \E i \in DOMAIN bitmap : bitmap[i] # 0
        /\ heap[data2[t]] = bitmap

\* C19: copy snapshots are atomic on the thread-safe table.  While Data(true)
\* runs concurrently with Set calls (no thread holds a Data(false) slice to
\* write through), the bytes copied so far are those of the buffer, and the
\* slice the call is about to return holds the buffer as it is at that
\* instant: every Set made before is in it in full, every later one not at
\* all.
C19_AtomicSnapshot ==
    \A t \in Threads :
        (kind = "ts" /\ call[t].op = "Data" /\ call[t].value
              /\ \A u \in Threads : data[u] = Nil)
            => /\ pc[t] = "data_copy"
                     => \A i \in 0 .. (loc[t].ci - 1) : heap[t][i] = bitmap[i]
               /\ pc[t] = "ts_data_unlock" => heap[loc[t].data] = bitmap

\* A Data(true) on a two-byte table has made its copy and is about to unlock
\* and return it, while the other thread's Set(.., true) on a valid cell
\* waits for the mutex.
C19_Witness ==
    \E t, u \in Threads :
        /\ kind = "ts" /\ t # u /\ \A v \in Threads : data[v] = Nil
        /\ pc[t] = "ts_data_unlock" /\ call[t].value
        /\ len(bitmap) = 2 /\ heap[loc[t].data] = bitmap
        /\ pc[u] = "ts_set_lock" /\ call[u].value
        /\ ValidCell(call[u].row, call[u].col)

=============================================================================
